---- MODULE Spec2Model ----
(***************************************************************************)
(* Surgical transcription RAG service.                                     *)
(*                                                                         *)
(*   Spec       the /analyze request handler of app.py, one step per       *)
(*              external call it makes (save, ffmpeg, upload, generate,    *)
(*              delete, query, generate, os.remove).                       *)
(*   BuildSpec  the offline corpus builder of build_database.py, one step  *)
(*              per embedding batch attempt.                               *)
(*                                                                         *)
(* Every external call is a nondeterministic choice over the outcomes the  *)
(* call can have (return normally, raise).                                 *)
(***************************************************************************)
EXTENDS Integers, Sequences, FiniteSets, TLC

VARIABLES
    \* ---- app.py ----
    collection,       \* module global: "handle" or "None" (initialize_database)
    reqNo,            \* number of requests received so far
    pc,               \* position of the handler
    request,          \* the multipart form of the current request
    video_path,       \* local of analyze_video
    audio_path,       \* local of analyze_video
    uploads,          \* files that exist in UPLOAD_FOLDER
    remote,           \* artifacts that exist on the remote file service
    transcript,       \* local of analyze_video (a token sequence, or NoText)
    analysis,         \* local of analyze_video
    pending,          \* the value of the executed return statement
    response,         \* what the client receives
    log,              \* pipeline stages invoked by the current request, in order
    truth,            \* what each external call of the current request really did
    \* ---- build_database.py ----
    bpc,              \* position of main()
    addRaisesOnDup,   \* collection.add on an existing id: raise, or ignore it
    pdf_files,        \* os.listdir result (same in every run): chunk count of each PDF
    collExists,       \* a collection COLLECTION_NAME exists in the store
    coll,             \* the collection: id -> [file, idx, run]
    runNo,            \* number of main() runs started
    fileIx,           \* index into pdf_files of the file being processed
    i,                \* loop variable of embed_and_store_chunks
    attempts,         \* per batch start index of this call: attempts made
    stored,           \* batch start indexes of this call whose add returned
    assigned,         \* ids given to chunks in this run: [file, idx, id]
    failedRun,        \* an embedding or storage call raised in this run
    prevEntries,      \* entries at the end of the previous failure-free run
    prevValid         \* prevEntries is meaningful

svars == <<collection, reqNo, pc, request, video_path, audio_path, uploads,
           remote, transcript, analysis, pending, response, log, truth>>
bvars == <<bpc, addRaisesOnDup, pdf_files, collExists, coll, runNo, fileIx, i,
           attempts, stored, assigned, failedRun, prevEntries, prevValid>>
vars == <<svars, bvars>>

-----------------------------------------------------------------------------
\* Bounds of the model.
MaxRequests == 2
MaxLen == 2
MaxFiles == 2
MaxRuns == 2
MaxChunks == 101

-----------------------------------------------------------------------------
\* ---- app.py: values ----

\* Python's None, for a path and for the collection handle
None == [req |-> 0, kind |-> "None"]
NoCollection == "None"

\* A text is a sequence of tokens.  The phrase the handler searches for is one
\* token; the other tokens are any other words.
Phrase == "Error during transcription"
Word == "Incision made at midline."
Detail == ": <exception message>"
Tokens == {Phrase, Word}

RECURSIVE TextsOfLen(_)
TextsOfLen(n) ==
    IF n = 0 THEN {<<>>}
    ELSE {Append(t, k) : t \in TextsOfLen(n - 1), k \in Tokens}

\* response.text of a successful generate_content call
Texts == UNION {TextsOfLen(n) : n \in 0..MaxLen}

\* Python's  needle in text  for a one-token needle
Contains(needle, text) == \E k \in 1..Len(text) : text[k] = needle

\* f"Error during transcription: {e}"
TranscriptionError == <<Phrase, Detail>>
\* "Error: ChromaDB connection failed. Cannot perform RAG analysis."
BackendError == <<"Error: ChromaDB connection failed.">>
\* f"An error occurred during the RAG workflow: {e}"
RagError == <<"An error occurred during the RAG workflow", Detail>>

NoText == <<"<unset>">>

Requests == [hasVideo : BOOLEAN, filename : {"", "op.mp4"}]

VideoFile(n) == [req |-> n, kind |-> "video"]
AudioFile(n) == [req |-> n, kind |-> "audio"]

NoResponse == [status |-> 0, body |-> {}]
Json(code, keys) == [status |-> code, body |-> keys]
\* an exception that leaves the view function: the framework's own 500 page
Unhandled == [status |-> 500, body |-> {"<html>"}]

Calls == {"save", "extract", "upload", "transcribe_generate", "delete",
          "text", "backend", "query", "analyze_generate",
          "remove_video", "remove_audio"}
NoTruth == [c \in Calls |-> "n/a"]

Did(call, how) == [truth EXCEPT ![call] = how]

-----------------------------------------------------------------------------
\* ---- app.py: the handler ----

InitServe ==
    /\ collection \in {"handle", NoCollection}
    /\ reqNo = 0
    /\ pc = "idle"
    /\ request = [hasVideo |-> FALSE, filename |-> ""]
    /\ video_path = None
    /\ audio_path = None
    /\ uploads = {}
    /\ remote = {}
    /\ transcript = NoText
    /\ analysis = NoText
    /\ pending = NoResponse
    /\ response = NoResponse
    /\ log = <<>>
    /\ truth = NoTruth

\* variant: the empty-filename check is missing
InputValid_NoFilenameCheck(r) == r.hasVideo

\* 'video' in request.files and file.filename != ''
InputValid(r) == r.hasVideo /\ r.filename # ""

\* A request arrives; the checks before the try block.
Receive ==
    /\ pc \in {"idle", "done"}
    /\ reqNo < MaxRequests
    /\ \E r \in Requests :
        /\ request' = r
        /\ IF InputValid(r)
           THEN /\ pc' = "save"
                /\ response' = NoResponse
           ELSE /\ pc' = "done"
                /\ response' = Json(400, {"error"})
    /\ reqNo' = reqNo + 1
    /\ video_path' = None
    /\ audio_path' = None
    /\ transcript' = NoText
    /\ analysis' = NoText
    /\ pending' = NoResponse
    /\ log' = <<>>
    /\ truth' = NoTruth
    /\ UNCHANGED <<bvars, collection, uploads, remote>>

\* except Exception as e: return jsonify({'error': ...}), 500
Caught == Json(500, {"error"})

\* video_path = ...; file.save(video_path)
Save ==
    /\ pc = "save"
    /\ video_path' = VideoFile(reqNo)
    /\ log' = Append(log, "save")
    /\ \E o \in {"ok", "raise", "raise_partial"} :
        /\ truth' = Did("save", IF o = "ok" THEN "ok" ELSE "fail")
        /\ uploads' = IF o = "raise" THEN uploads
                      ELSE uploads \cup {VideoFile(reqNo)}
        /\ IF o = "ok"
           THEN pc' = "extract" /\ UNCHANGED pending
           ELSE pc' = "finally_video" /\ pending' = Caught
    /\ UNCHANGED <<bvars, collection, reqNo, request, audio_path, remote, transcript,
                   analysis, response>>

\* variant: the handler goes on to transcription after a failed extraction
AfterExtract_Continue(path) == "upload"

\* if not audio_path: return ..., 500
AfterExtract(path) == IF path = None THEN "finally_video" ELSE "upload"

\* audio_path = extract_audio_from_video(video_path)
Extract ==
    /\ pc = "extract"
    /\ log' = Append(log, "extract")
    /\ \E o \in {"ok", "raise", "raise_partial"} :
        /\ truth' = Did("extract", IF o = "ok" THEN "ok" ELSE "fail")
        /\ uploads' = IF o = "raise" THEN uploads
                      ELSE uploads \cup {AudioFile(reqNo)}
        /\ audio_path' = IF o = "ok" THEN AudioFile(reqNo) ELSE None
        /\ pc' = AfterExtract(audio_path')
        /\ pending' = IF audio_path' = None THEN Json(500, {"error"})
                      ELSE pending
    /\ UNCHANGED <<bvars, collection, reqNo, request, video_path, remote, transcript,
                   analysis, response>>

\* transcribe_audio: audio_file = genai.upload_file(path=audio_path)
Upload ==
    /\ pc = "upload"
    /\ log' = Append(log, "transcribe")
    /\ \E o \in {"ok", "raise"} :
        /\ truth' = Did("upload", IF o = "ok" THEN "ok" ELSE "fail")
        /\ IF o = "ok"
           THEN /\ remote' = remote \cup {reqNo}
                /\ pc' = "transcribe_generate"
                /\ UNCHANGED transcript
           ELSE /\ transcript' = TranscriptionError
                /\ pc' = "check"
                /\ UNCHANGED remote
    /\ UNCHANGED <<bvars, collection, reqNo, request, video_path, audio_path, uploads,
                   analysis, pending, response>>

\* transcribe_audio: response = model.generate_content(..., timeout 600)
TranscribeGenerate ==
    /\ pc = "transcribe_generate"
    /\ \E o \in {"ok", "raise", "timeout"} :
        /\ truth' = Did("transcribe_generate", IF o = "ok" THEN "ok" ELSE "fail")
        /\ IF o = "ok"
           THEN pc' = "delete" /\ UNCHANGED transcript
           ELSE pc' = "check" /\ transcript' = TranscriptionError
    /\ UNCHANGED <<bvars, collection, reqNo, request, video_path, audio_path, uploads,
                   remote, analysis, pending, response, log>>

\* transcribe_audio: genai.delete_file(audio_file.name)
Delete ==
    /\ pc = "delete"
    /\ \E o \in {"ok", "raise"} :
        /\ truth' = Did("delete", IF o = "ok" THEN "ok" ELSE "fail")
        /\ IF o = "ok"
           THEN /\ remote' = remote \ {reqNo}
                /\ pc' = "text"
                /\ UNCHANGED transcript
           ELSE /\ transcript' = TranscriptionError
                /\ pc' = "check"
                /\ UNCHANGED remote
    /\ UNCHANGED <<bvars, collection, reqNo, request, video_path, audio_path, uploads,
                   analysis, pending, response, log>>

\* transcribe_audio: return response.text
Text ==
    /\ pc = "text"
    /\ \/ \E t \in Texts :
            /\ transcript' = t
            /\ truth' = Did("text", "ok")
       \/ /\ transcript' = TranscriptionError
          /\ truth' = Did("text", "fail")
    /\ pc' = "check"
    /\ UNCHANGED <<bvars, collection, reqNo, request, video_path, audio_path, uploads,
                   remote, analysis, pending, response, log>>

\* if "Error during transcription" in transcript: return ..., 500
Check ==
    /\ pc = "check"
    /\ IF Contains(Phrase, transcript)
       THEN pc' = "finally_video" /\ pending' = Json(500, {"error"})
       ELSE pc' = "rag" /\ UNCHANGED pending
    /\ UNCHANGED <<bvars, collection, reqNo, request, video_path, audio_path, uploads,
                   remote, transcript, analysis, response, log, truth>>

\* get_rag_analysis: the collection check and collection.query
Query ==
    /\ pc = "rag"
    /\ IF collection = NoCollection
       THEN /\ analysis' = BackendError
            /\ truth' = Did("backend", "fail")
            /\ pc' = "respond"
            /\ UNCHANGED log
       ELSE /\ log' = Append(log, "retrieve")
            /\ \E o \in {"ok", "raise"} :
                /\ truth' = [truth EXCEPT !["backend"] = "ok",
                                          !["query"] = IF o = "ok" THEN "ok"
                                                       ELSE "fail"]
                /\ IF o = "ok"
                   THEN pc' = "analyze_generate" /\ UNCHANGED analysis
                   ELSE pc' = "respond" /\ analysis' = RagError
    /\ UNCHANGED <<bvars, collection, reqNo, request, video_path, audio_path, uploads,
                   remote, transcript, pending, response>>

\* get_rag_analysis: model.generate_content(combined_prompt); response.text
AnalyzeGenerate ==
    /\ pc = "analyze_generate"
    /\ log' = Append(log, "generate")
    /\ \E o \in {"ok", "raise", "timeout"} :
        /\ truth' = Did("analyze_generate", IF o = "ok" THEN "ok" ELSE "fail")
        /\ analysis' = IF o = "ok" THEN <<Word>> ELSE RagError
    /\ pc' = "respond"
    /\ UNCHANGED <<bvars, collection, reqNo, request, video_path, audio_path, uploads,
                   remote, transcript, pending, response>>

\* return jsonify({'transcript': transcript, 'analysis': analysis})
Respond ==
    /\ pc = "respond"
    /\ pending' = Json(200, {"transcript", "analysis"})
    /\ pc' = "finally_video"
    /\ UNCHANGED <<bvars, collection, reqNo, request, video_path, audio_path, uploads,
                   remote, transcript, analysis, response, log, truth>>

\* finally: if video_path and os.path.exists(video_path): os.remove(video_path)
FinallyVideo ==
    /\ pc = "finally_video"
    /\ IF video_path # None /\ video_path \in uploads
       THEN \E o \in {"ok", "raise"} :
              /\ truth' = Did("remove_video", IF o = "ok" THEN "ok" ELSE "fail")
              /\ IF o = "ok"
                 THEN /\ uploads' = uploads \ {video_path}
                      /\ pc' = "finally_audio"
                      /\ UNCHANGED response
                 ELSE /\ pc' = "done"
                      /\ response' = Unhandled
                      /\ UNCHANGED uploads
       ELSE /\ pc' = "finally_audio"
            /\ UNCHANGED <<uploads, response, truth>>
    /\ UNCHANGED <<bvars, collection, reqNo, request, video_path, audio_path, remote,
                   transcript, analysis, pending, log>>

\* finally: if audio_path and os.path.exists(audio_path): os.remove(audio_path)
FinallyAudio ==
    /\ pc = "finally_audio"
    /\ IF audio_path # None /\ audio_path \in uploads
       THEN \E o \in {"ok", "raise"} :
              /\ truth' = Did("remove_audio", IF o = "ok" THEN "ok" ELSE "fail")
              /\ IF o = "ok"
                 THEN /\ uploads' = uploads \ {audio_path}
                      /\ response' = pending
                 ELSE /\ response' = Unhandled
                      /\ UNCHANGED uploads
       ELSE /\ response' = pending
            /\ UNCHANGED <<uploads, truth>>
    /\ pc' = "done"
    /\ UNCHANGED <<bvars, collection, reqNo, request, video_path, audio_path, remote,
                   transcript, analysis, pending, log>>

NextServe ==
    \/ Receive
    \/ Save
    \/ Extract
    \/ Upload
    \/ TranscribeGenerate
    \/ Delete
    \/ Text
    \/ Check
    \/ Query
    \/ AnalyzeGenerate
    \/ Respond
    \/ FinallyVideo
    \/ FinallyAudio

-----------------------------------------------------------------------------
\* ---- build_database.py: values ----

batch_size == 100

\* f"chunk_{n}"
ChunkId(n) == <<"chunk_", n>>

\* range(0, len(chunks), batch_size)
BatchStarts(n) == {k \in 0..(n - 1) : k % batch_size = 0}

\* indexes of chunks[k : k + batch_size]
BatchIndexes(k, n) == {x \in k..(k + batch_size - 1) : x < n}

\* batch_ids = [f"chunk_{i+j}" for j in range(len(batch_chunks))]
BatchIds(k, n) == {ChunkId(k + j) : j \in 0..(Cardinality(BatchIndexes(k, n)) - 1)}

\* number of chunks get_text_chunks yields for a PDF (0: no text extracted)
ChunkCounts == {0, 1, batch_size, MaxChunks}

RECURSIVE Listings(_)
Listings(n) ==
    IF n = 0 THEN {<<>>}
    ELSE {Append(l, c) : l \in Listings(n - 1), c \in ChunkCounts}

EmptyCollection == [id \in {} |-> [file |-> 0, idx |-> 0, run |-> 0]]

\* what an earlier build may have left in the store
StaleCollection ==
    [id \in {ChunkId(x) : x \in 0..MaxChunks} |->
        [file |-> 0, idx |-> id[2], run |-> 0]]

\* the (identifier, document) pairs of a collection
Entries(c) == {[id |-> id, file |-> c[id].file, idx |-> c[id].idx] : id \in DOMAIN c}

\* collection.count()
Count(c) == Cardinality(DOMAIN c)

\* collection.add raises on an id the collection already holds, or not,
\* depending on the library version
AddRaises(c, ids) == addRaisesOnDup /\ (ids \cap DOMAIN c) # {}

\* collection.add(embeddings, documents, ids) returning normally: an id the
\* collection already holds keeps its entry
Add(c, k, n, f, r) ==
    [id \in DOMAIN c \cup BatchIds(k, n) |->
        IF id \in DOMAIN c THEN c[id]
        ELSE [file |-> f, idx |-> id[2], run |-> r]]

-----------------------------------------------------------------------------
\* ---- build_database.py: main and embed_and_store_chunks ----

InitBuild ==
    /\ bpc = "idle"
    /\ addRaisesOnDup \in BOOLEAN
    /\ pdf_files \in UNION {Listings(n) : n \in 0..MaxFiles}
    /\ collExists \in BOOLEAN
    /\ coll \in (IF collExists THEN {EmptyCollection, StaleCollection}
                 ELSE {EmptyCollection})
    /\ runNo = 0
    /\ fileIx = 1
    /\ i = 0
    /\ attempts = <<>>
    /\ stored = {}
    /\ assigned = {}
    /\ failedRun = FALSE
    /\ prevEntries = {}
    /\ prevValid = FALSE

\* variant: get_or_create without dropping the existing collection
FreshCollection_KeepExisting(c) == c

\* delete_collection if it exists, then create_collection
FreshCollection(c) == EmptyCollection

\* main() up to the loop over pdf_files
StartRun ==
    /\ bpc \in {"idle", "done"}
    /\ runNo < MaxRuns
    /\ runNo' = runNo + 1
    /\ prevValid' = (bpc = "done" /\ ~failedRun)
    /\ prevEntries' = IF prevValid' THEN Entries(coll) ELSE {}
    /\ coll' = FreshCollection(coll)
    /\ collExists' = TRUE
    /\ fileIx' = 1
    /\ i' = 0
    /\ attempts' = <<>>
    /\ stored' = {}
    /\ assigned' = {}
    /\ failedRun' = FALSE
    /\ bpc' = IF pdf_files = <<>> THEN "done" ELSE "file"
    /\ UNCHANGED <<svars, addRaisesOnDup, pdf_files>>

\* for pdf_file in pdf_files: extract, split, call embed_and_store_chunks
NextFile ==
    /\ bpc = "file"
    /\ IF fileIx > Len(pdf_files)
       THEN /\ bpc' = "done"
            /\ UNCHANGED <<fileIx, i, attempts, stored>>
       ELSE IF pdf_files[fileIx] = 0
       THEN /\ fileIx' = fileIx + 1
            /\ UNCHANGED <<bpc, i, attempts, stored>>
       ELSE /\ bpc' = "batch"
            /\ i' = 0
            /\ attempts' = [k \in BatchStarts(pdf_files[fileIx]) |-> 0]
            /\ stored' = {}
            /\ UNCHANGED fileIx
    /\ UNCHANGED <<svars, addRaisesOnDup, pdf_files, collExists, coll, runNo, assigned,
                   failedRun, prevEntries, prevValid>>

\* one try of a batch: genai.embed_content, then collection.add
TryBatch(n) ==
    \E o \in {"ok", "embed_raises", "add_raises"} :
        IF o = "ok" /\ ~AddRaises(coll, BatchIds(i, n))
        THEN /\ coll' = Add(coll, i, n, fileIx, runNo)
             /\ stored' = stored \cup {i}
             /\ UNCHANGED failedRun
        ELSE /\ failedRun' = TRUE
             /\ UNCHANGED <<coll, stored>>

\* embed_and_store_chunks: the first try of the batch starting at i
EmbedBatch ==
    /\ bpc = "batch"
    /\ i < pdf_files[fileIx]
    /\ assigned' = assigned \cup
          {[file |-> fileIx, idx |-> x, id |-> ChunkId(i + (x - i))] :
              x \in BatchIndexes(i, pdf_files[fileIx])}
    /\ attempts' = [attempts EXCEPT ![i] = @ + 1]
    /\ TryBatch(pdf_files[fileIx])
    /\ IF i \in stored'
       THEN i' = i + batch_size /\ UNCHANGED bpc
       ELSE bpc' = "retry" /\ UNCHANGED i
    /\ UNCHANGED <<svars, addRaisesOnDup, pdf_files, collExists, runNo, fileIx,
                   prevEntries, prevValid>>

\* variant: the loop tries the same batch again after the retry
AfterRetry_SameBatch(k) == k

\* after the retry, whatever its outcome, the loop goes on to the next batch
AfterRetry(k) == k + batch_size

\* embed_and_store_chunks: the except branch, one retry
RetryBatch ==
    /\ bpc = "retry"
    /\ attempts' = [attempts EXCEPT ![i] = @ + 1]
    /\ TryBatch(pdf_files[fileIx])
    /\ i' = AfterRetry(i)
    /\ bpc' = "batch"
    /\ UNCHANGED <<svars, addRaisesOnDup, pdf_files, collExists, runNo, fileIx,
                   assigned, prevEntries, prevValid>>

\* embed_and_store_chunks: the loop is exhausted and the function returns
ReturnFromEmbed ==
    /\ bpc = "batch"
    /\ i >= pdf_files[fileIx]
    /\ bpc' = "returned"
    /\ UNCHANGED <<svars, addRaisesOnDup, pdf_files, collExists, coll, runNo, fileIx,
                   i, attempts, stored, assigned, failedRun, prevEntries,
                   prevValid>>

\* main(): "Finished processing", next iteration
FileDone ==
    /\ bpc = "returned"
    /\ bpc' = "file"
    /\ fileIx' = fileIx + 1
    /\ UNCHANGED <<svars, addRaisesOnDup, pdf_files, collExists, coll, runNo, i,
                   attempts, stored, assigned, failedRun, prevEntries,
                   prevValid>>

NextBuild ==
    \/ StartRun
    \/ NextFile
    \/ EmbedBatch
    \/ RetryBatch
    \/ ReturnFromEmbed
    \/ FileDone

-----------------------------------------------------------------------------
\* ---- specifications ----

\* the server, with the builder not running
Init == InitServe /\ InitBuild /\ pdf_files = <<>> /\ ~collExists /\ addRaisesOnDup
Next == NextServe
Spec == Init /\ [][Next]_vars

\* the builder, with the server not running
BuildInit == InitBuild /\ InitServe /\ collection = NoCollection
BuildNext == NextBuild
BuildSpec == BuildInit /\ [][BuildNext]_vars

-----------------------------------------------------------------------------
\* ---- properties of the request handler (checked under Spec) ----

PipelineCalls == {"save", "extract", "upload", "transcribe_generate", "text",
                  "backend", "query", "analyze_generate"}

\* some pipeline stage of the current request really failed
StageFailed == \E c \in PipelineCalls : truth[c] = "fail"

\* no os.remove call of the finally block raised
RemovesOk == truth["remove_video"] # "fail" /\ truth["remove_audio"] # "fail"

\* the Transcription Client produced a transcript: upload, generation and
\* reading the text all worked
TranscriptProduced ==
    /\ truth["upload"] = "ok"
    /\ truth["transcribe_generate"] = "ok"
    /\ truth["text"] = "ok"

\* the Transcription Client really failed
TranscriptionFailed ==
    \E c \in {"upload", "transcribe_generate", "text"} : truth[c] = "fail"

\* the handler left through  return jsonify({'error': transcript}), 500
ClassifiedAsTranscriptionError ==
    /\ truth["upload"] # "n/a"
    /\ truth["backend"] = "n/a"
    /\ pending = Json(500, {"error"})

\* C1: when the handler of a validated request returns, neither the saved
\* video nor an audio file the extractor created for the request exists in the
\* upload folder.  Stated here for the runs in which every os.remove call the
\* handler makes succeeds.
C1_NoTempFilesAtReturn ==
    (pc = "done" /\ request.hasVideo /\ request.filename # "" /\ RemovesOk)
        => /\ VideoFile(reqNo) \notin uploads
           /\ AudioFile(reqNo) \notin uploads

\* C2: a request in which a pipeline stage failed (save, extraction,
\* transcription, retrieval backend unavailable, query, generation) ends with
\* HTTP 500 and a JSON body with an error field, never with 200.  Stated for
\* the runs in which the cleanup itself does not raise.
C2_StageFailureIs500 ==
    (pc = "done" /\ StageFailed /\ RemovesOk)
        => response = Json(500, {"error"})

\* C3: a request without a video part, or with an empty filename, is answered
\* 400 with an error body; no file of the request is written and no stage or
\* external call is made.
C3_InvalidRequestRejected ==
    (reqNo > 0 /\ (~request.hasVideo \/ request.filename = ""))
        => /\ pc = "done"
           /\ response = Json(400, {"error"})
           /\ log = <<>>
           /\ truth = NoTruth
           /\ VideoFile(reqNo) \notin uploads
           /\ AudioFile(reqNo) \notin uploads

C3_Witness ==
    /\ pc = "done"
    /\ request.hasVideo
    /\ request.filename = ""
    /\ response.status = 400

\* C4: when save, extraction, transcription and analysis all succeed the
\* response is 200 with transcript and analysis, whatever the transcript's
\* text; and the handler classifies the request as a transcription error if
\* and only if the Transcription Client failed.  Stated for the runs in which
\* the remote delete and the local cleanup do not raise.
C4_SuccessIs200 ==
    (pc = "done" /\ truth["upload"] # "n/a" /\ truth["delete"] # "fail" /\ RemovesOk)
        => /\ (TranscriptProduced /\ truth["backend"] = "ok" /\ truth["query"] = "ok"
                 /\ truth["analyze_generate"] = "ok")
                => response = Json(200, {"transcript", "analysis"})
           /\ ClassifiedAsTranscriptionError <=> TranscriptionFailed

\* C6: when transcribe_audio has returned and its upload had succeeded, a
\* deletion of the uploaded artifact has been attempted.
C6_DeleteAttempted ==
    (pc = "check" /\ truth["upload"] = "ok") => truth["delete"] # "n/a"

\* C7: when upload and generation succeeded and the remote delete raised,
\* transcribe_audio returns the transcript text and the request goes on to the
\* analysis stage.
C7_DeleteFailureNonFatal ==
    (truth["upload"] = "ok" /\ truth["transcribe_generate"] = "ok"
       /\ truth["delete"] = "fail")
        => /\ pc = "check" => transcript \in Texts
           /\ pc = "done" => truth["backend"] # "n/a"

StageOrder == <<"save", "extract", "transcribe", "retrieve", "generate">>

StageOk(stage) ==
    CASE stage = "save" -> truth["save"] = "ok"
      [] stage = "extract" -> truth["extract"] = "ok"
      [] stage = "transcribe" -> TranscriptProduced
      [] stage = "retrieve" -> truth["query"] = "ok"
      [] OTHER -> truth["analyze_generate"] = "ok"

\* C8: the stages a request invokes are a prefix of save, extract, transcribe,
\* retrieve, generate (so: in order, each at most once, no back-edge), and a
\* stage is invoked only if every earlier stage succeeded.
C8_StagesInOrder ==
    /\ Len(log) <= Len(StageOrder)
    /\ \A k \in 1..Len(log) :
        /\ log[k] = StageOrder[k]
        /\ \A j \in 1..(k - 1) : StageOk(StageOrder[j])

C8_Witness ==
    /\ pc = "done"
    /\ log = StageOrder
    /\ response.status = 200

-----------------------------------------------------------------------------
\* ---- properties of the corpus builder (checked under BuildSpec) ----

RECURSIVE SumTo(_, _)
SumTo(l, n) == IF n = 0 THEN 0 ELSE l[n] + SumTo(l, n - 1)

\* number of chunks produced over all files
TotalChunks == SumTo(pdf_files, Len(pdf_files))

\* C5: at the end of a run without embedding or storage failures every entry
\* of the collection was added by that run, no chunk is stored under two ids,
\* and, when the previous run over the same files was failure-free too, the
\* collection holds the same entries and the same count as after that run.
C5_RebuildIdempotent ==
    (bpc = "done" /\ ~failedRun)
        => /\ \A id \in DOMAIN coll : coll[id].run = runNo
           /\ \A a, b \in DOMAIN coll :
                (coll[a].file = coll[b].file /\ coll[a].idx = coll[b].idx) => a = b
           /\ prevValid => /\ Entries(coll) = prevEntries
                           /\ Count(coll) = Cardinality(prevEntries)

C5_Witness ==
    /\ bpc = "done"
    /\ runNo = 2
    /\ prevValid
    /\ ~failedRun
    /\ Len(pdf_files) = 2
    /\ Count(coll) > batch_size

\* C9: a batch is attempted at most twice; when embed_and_store_chunks
\* returns, every batch has been attempted, a batch that was not stored was
\* given up only after its retry, and the ids of every batch whose add
\* returned are in the collection.
C9_RetryOnceThenSkip ==
    /\ \A k \in DOMAIN attempts : attempts[k] <= 2
    /\ bpc \in {"batch", "retry"} =>
          \A k \in DOMAIN attempts : k < i => attempts[k] >= 1
    /\ bpc = "returned" =>
          \A k \in DOMAIN attempts :
             /\ attempts[k] >= 1
             /\ k \notin stored => attempts[k] = 2
             /\ k \in stored => BatchIds(k, pdf_files[fileIx]) \subseteq DOMAIN coll

C9_Witness ==
    /\ bpc = "returned"
    /\ DOMAIN attempts = {0, batch_size}
    /\ attempts[0] = 2
    /\ 0 \notin stored
    /\ batch_size \in stored

\* C10: no two chunks of a run are given the same id, and after a run without
\* failures the collection's count is the total number of chunks produced.
C10_UniqueIds ==
    /\ Cardinality({a.id : a \in assigned}) = Cardinality(assigned)
    /\ (bpc = "done" /\ ~failedRun) => Count(coll) = TotalChunks

====
